---- MODULE Spec2Model ----
(***************************************************************************)
(* Model of rust-dependabot-generator (src/main.rs): the pattern registry, *)
(* the filtered tree walk, find_ecosystem, the directory normalisation,    *)
(* the grouping and sort of find_targets, and main's use of the result.    *)
(*                                                                         *)
(* Strings are TLA+ strings.  A Path is the sequence of its components     *)
(* (std::path compares, strips and takes parents component-wise); its      *)
(* to_str is the components joined with MAIN_SEPARATOR_STR.                *)
(***************************************************************************)
EXTENDS Integers, Sequences, FiniteSets, TLC

(***************************************************************************)
(* Bounds of the model.                                                    *)
(***************************************************************************)
\* At most this many paths of Universe are present under the scan root.
MaxEntries == 2

(***************************************************************************)
(* Strings.                                                                *)
(***************************************************************************)
MAIN_SEPARATOR == "/"
MAIN_SEPARATOR_STR == "/"

\* The characters that occur in the model's names, in ascending byte order.
CHARS == "-./0123456789ABCDEFGHIJKLMNOPQRSTUVWXYZ_abcdefghijklmnopqrstuvwxyz"

Ch(s, i) == SubSeq(s, i, i)
From(s, i) == SubSeq(s, i, Len(s))

\* Byte rank of a one-character string.
Ord(c) == CHOOSE i \in 1..Len(CHARS) : Ch(CHARS, i) = c

RECURSIVE StrCmp(_, _)
\* Ord::cmp on String: bytewise lexicographic; -1, 0 or 1.
StrCmp(a, b) ==
    IF a = "" /\ b = "" THEN 0
    ELSE IF a = "" THEN -1
    ELSE IF b = "" THEN 1
    ELSE IF Ch(a, 1) = Ch(b, 1) THEN StrCmp(From(a, 2), From(b, 2))
    ELSE IF Ord(Ch(a, 1)) < Ord(Ch(b, 1)) THEN -1 ELSE 1

\* str::starts_with
starts_with(s, prefix) ==
    Len(prefix) <= Len(s) /\ SubSeq(s, 1, Len(prefix)) = prefix

(***************************************************************************)
(* Paths.                                                                  *)
(***************************************************************************)
RECURSIVE to_str(_)
\* Path::to_str: the components joined by the separator.
to_str(p) ==
    IF p = <<>> THEN ""
    ELSE IF Len(p) = 1 THEN p[1]
    ELSE p[1] \o MAIN_SEPARATOR_STR \o to_str(Tail(p))

IsPrefix(base, p) ==
    Len(base) <= Len(p) /\ SubSeq(p, 1, Len(base)) = base

\* Path::strip_prefix: Ok(rest) when base is a component prefix, else Err.
strip_prefix(p, base) ==
    IF IsPrefix(base, p)
    THEN [ok |-> TRUE, sub |-> SubSeq(p, Len(base) + 1, Len(p))]
    ELSE [ok |-> FALSE, sub |-> <<>>]

\* Path::parent: None for the empty path, else the path without its last component.
parent(p) ==
    IF p = <<>> THEN [some |-> FALSE, path |-> <<>>]
    ELSE [some |-> TRUE, path |-> SubSeq(p, 1, Len(p) - 1)]

\* Path::file_name: None for the empty path, else the last component.
file_name(p) ==
    IF p = <<>> THEN [some |-> FALSE, name |-> ""]
    ELSE [some |-> TRUE, name |-> p[Len(p)]]

(***************************************************************************)
(* Globs (globset with empty_alternates(true), literal_separator off):     *)
(* '*' matches any run of characters, separators included; '{a,b}' is an   *)
(* alternation whose branches may be empty; anything else is literal.  The *)
(* whole candidate must match.                                             *)
(***************************************************************************)
RECURSIVE IndexOf(_, _, _)
\* Smallest index >= i of character c in s, or Len(s) + 1.
IndexOf(s, c, i) ==
    IF i > Len(s) THEN Len(s) + 1
    ELSE IF Ch(s, i) = c THEN i ELSE IndexOf(s, c, i + 1)

RECURSIVE Alternates(_)
\* The branches of the body of a brace alternation.
Alternates(body) ==
    LET k == IndexOf(body, ",", 1)
    IN  IF k > Len(body) THEN {body}
        ELSE {SubSeq(body, 1, k - 1)} \cup Alternates(From(body, k + 1))

RECURSIVE Expand(_)
\* Compiling a glob: its alternations expanded, leaving literals and '*'.
Expand(pat) ==
    LET open == IndexOf(pat, "{", 1)
        close == IndexOf(pat, "}", 1)
    IN  IF open > Len(pat) THEN {pat}
        ELSE UNION {Expand(SubSeq(pat, 1, open - 1) \o alt \o From(pat, close + 1)) :
                        alt \in Alternates(SubSeq(pat, open + 1, close - 1))}

RECURSIVE Segments(_)
\* The literal runs of an alternation-free glob, split at each '*'.
Segments(pat) ==
    LET star == IndexOf(pat, "*", 1)
    IN  IF star > Len(pat) THEN <<pat>>
        ELSE <<SubSeq(pat, 1, star - 1)>> \o Segments(From(pat, star + 1))

\* str::ends_with
ends_with(s, suffix) ==
    Len(suffix) <= Len(s) /\ SubSeq(s, Len(s) - Len(suffix) + 1, Len(s)) = suffix

RECURSIVE MatchAfterStar(_, _)
\* s matched against '*' seg '*' seg ... '*' seg, to the end of s.
MatchAfterStar(segs, s) ==
    IF Len(segs) = 1 THEN ends_with(s, segs[1])
    ELSE \E k \in 1..(Len(s) - Len(segs[1]) + 1) :
            /\ SubSeq(s, k, k + Len(segs[1]) - 1) = segs[1]
            /\ MatchAfterStar(Tail(segs), From(s, k + Len(segs[1])))

\* Does the compiled glob (its literal runs) match the whole of s?
GlobMatch(segs, s) ==
    IF Len(segs) = 1 THEN s = segs[1]
    ELSE /\ starts_with(s, segs[1])
         /\ MatchAfterStar(Tail(segs), From(s, Len(segs[1]) + 1))

\* patterns_to_globset: the glob set built from the patterns, each glob
\* compiled to its literal runs.
patterns_to_globset(x) == {Segments(g) : g \in UNION {Expand(p) : p \in x}}

\* GlobSet::is_match: some glob of the set matches.
is_match(globset, s) == \E glob \in globset : GlobMatch(glob, s)

(***************************************************************************)
(* The pattern registry.                                                   *)
(***************************************************************************)
PATTERNS_BUN == {"bun.lock"}
PATTERNS_BUNDLER == {"Gemfile{,.lock}"}
PATTERNS_CARGO == {"Cargo.{toml,lock}"}
PATTERNS_COMPOSER == {"composer.{json,lock}"}
PATTERNS_DEVCONTAINERS == {"{,.}devcontainer{,-lock}.json"}
PATTERNS_DOCKER == {"*Dockerfile*"}
PATTERNS_DOCKER_COMPOSE == {"*docker-compose*.y{,a}ml"}
PATTERNS_DOTNET_SDK == {"global.json"}
PATTERNS_ELM == {"elm.json"}
PATTERNS_GITSUBMODULES == {".gitmodules"}
PATTERNS_GITHUBACTIONS == {".github/workflows/*.y{,a}ml"}
PATTERNS_GOMOD == {"go.{mod,sum}"}
PATTERNS_GRADLE == {"build.gradle{,.kts}", "gradle.build", "settings.gradle"}
PATTERNS_HELM == {"Chart.lock"}
PATTERNS_MAVEN == {"pom.xml"}
PATTERNS_MIX == {"mix.{exs,lock}"}
PATTERNS_NPM == {"package{,-lock}.json", "{deno,yarn}.lock", "pnpm-lock.yaml"}
PATTERNS_NUGET == {"*.csproj", "project.json", "packages.config"}
PATTERNS_PIP ==
    {"pyproject.toml", "setup.{cfg,py}", "requirements*.{in,txt}",
     "poetry.lock", "Pipfile{,.lock}"}
PATTERNS_PUB == {"pubspec.{yaml,lock}"}
PATTERNS_SWIFT == {"Package.{swift,resolved}"}
PATTERNS_TERRAFORM == {"{main,variables}.tf", "terraform.tfstate", ".terraform.lock.hcl"}
PATTERNS_UV == {"uv.lock"}

\* The entries of the ECOSYSTEMS map in the order they are written.
ECOSYSTEM_LIST ==
    << "Bun", "Bundler", "Cargo", "Composer", "Devcontainers", "Docker",
       "DockerCompose", "DotnetSdk", "Mix", "Elm", "Gitsubmodule",
       "GithubActions", "Gomod", "Gradle", "Helm", "Maven", "Npm", "Nuget",
       "Pip", "Pub", "Swift", "Terraform", "Uv" >>

PackageEcosystem == {ECOSYSTEM_LIST[i] : i \in 1..Len(ECOSYSTEM_LIST)}

\* The ECOSYSTEMS map, built once: ecosystem -> glob set.
ECOSYSTEMS ==
    [ Bun |-> patterns_to_globset(PATTERNS_BUN),
      Bundler |-> patterns_to_globset(PATTERNS_BUNDLER),
      Cargo |-> patterns_to_globset(PATTERNS_CARGO),
      Composer |-> patterns_to_globset(PATTERNS_COMPOSER),
      Devcontainers |-> patterns_to_globset(PATTERNS_DEVCONTAINERS),
      Docker |-> patterns_to_globset(PATTERNS_DOCKER),
      DockerCompose |-> patterns_to_globset(PATTERNS_DOCKER_COMPOSE),
      DotnetSdk |-> patterns_to_globset(PATTERNS_DOTNET_SDK),
      Mix |-> patterns_to_globset(PATTERNS_MIX),
      Elm |-> patterns_to_globset(PATTERNS_ELM),
      Gitsubmodule |-> patterns_to_globset(PATTERNS_GITSUBMODULES),
      GithubActions |-> patterns_to_globset(PATTERNS_GITHUBACTIONS),
      Gomod |-> patterns_to_globset(PATTERNS_GOMOD),
      Gradle |-> patterns_to_globset(PATTERNS_GRADLE),
      Helm |-> patterns_to_globset(PATTERNS_HELM),
      Maven |-> patterns_to_globset(PATTERNS_MAVEN),
      Npm |-> patterns_to_globset(PATTERNS_NPM),
      Nuget |-> patterns_to_globset(PATTERNS_NUGET),
      Pip |-> patterns_to_globset(PATTERNS_PIP),
      Pub |-> patterns_to_globset(PATTERNS_PUB),
      Swift |-> patterns_to_globset(PATTERNS_SWIFT),
      Terraform |-> patterns_to_globset(PATTERNS_TERRAFORM),
      Uv |-> patterns_to_globset(PATTERNS_UV) ]

\* PackageEcosystem's Display: the kebab-case name dependabot uses.
Display(e) ==
    CASE e = "Bun" -> "bun"
      [] e = "Bundler" -> "bundler"
      [] e = "Cargo" -> "cargo"
      [] e = "Composer" -> "composer"
      [] e = "Devcontainers" -> "devcontainers"
      [] e = "Docker" -> "docker"
      [] e = "DockerCompose" -> "docker-compose"
      [] e = "DotnetSdk" -> "dotnet-sdk"
      [] e = "Mix" -> "mix"
      [] e = "Elm" -> "elm"
      [] e = "Gitsubmodule" -> "gitsubmodule"
      [] e = "GithubActions" -> "github-actions"
      [] e = "Gomod" -> "gomod"
      [] e = "Gradle" -> "gradle"
      [] e = "Helm" -> "helm"
      [] e = "Maven" -> "maven"
      [] e = "Npm" -> "npm"
      [] e = "Nuget" -> "nuget"
      [] e = "Pip" -> "pip"
      [] e = "Pub" -> "pub"
      [] e = "Swift" -> "swift"
      [] e = "Terraform" -> "terraform"
      [] e = "Uv" -> "uv"

Reverse(s) == [i \in 1..Len(s) |-> s[Len(s) + 1 - i]]

\* Iteration orders of the ECOSYSTEMS hash map that a process may get.  The
\* map's hasher is seeded per process, so the order is any permutation; these
\* two put every pair of ecosystems in both relative orders.
HashOrders == {ECOSYSTEM_LIST, Reverse(ECOSYSTEM_LIST)}

None == "None"

\* Accepts with the workflow glob tested on the path as walked, the scan
\* root not stripped.
Accepts_unstripped(ecosystem, path, root) ==
    IF ecosystem = "GithubActions"
    THEN is_match(ECOSYSTEMS[ecosystem], to_str(path))
    ELSE is_match(ECOSYSTEMS[ecosystem], file_name(path).name)

\* Does the ecosystem's test in find_ecosystem's loop body accept the path?
Accepts(ecosystem, path, root) ==
    IF ecosystem = "GithubActions"
    THEN LET r == strip_prefix(path, root)
         IN  r.ok /\ is_match(ECOSYSTEMS[ecosystem], to_str(r.sub))
    ELSE is_match(ECOSYSTEMS[ecosystem], file_name(path).name)

RECURSIVE FirstMatch(_, _, _, _)
\* The loop of find_ecosystem from position i of the iteration order on:
\* return at the first ecosystem that accepts.
FirstMatch(path, root, iter, i) ==
    IF i > Len(iter) THEN None
    ELSE IF Accepts(iter[i], path, root) THEN iter[i]
    ELSE FirstMatch(path, root, iter, i + 1)

\* find_ecosystem in a process whose ECOSYSTEMS map iterates in order iter.
find_ecosystem(path, root, iter) ==
    IF ~file_name(path).some THEN None
    ELSE FirstMatch(path, root, iter, 1)

(***************************************************************************)
(* The file system under the scan root.                                    *)
(***************************************************************************)
\* Paths, relative to the scan root, that a tree may hold.
Universe ==
    { <<"package.json">>,
      <<"package-lock.json">>,
      <<"Cargo.toml">>,
      <<"Cargo.lock">>,
      <<"unknown">>,
      <<"Dockerfiles">>,
      <<"a", "package.json">>,
      <<"node_modules", "pkg", "package.json">>,
      <<".github", "workflows", "ci.yml">>,
      <<".github", "workflows", "sub", "docker-compose.yml">>,
      <<".devcontainer", "devcontainer.json">>,
      <<".devcontainer", "sub", "devcontainer.json">>,
      <<"a", ".devcontainer", "devcontainer.json">>,
      <<".devcontainerX", "devcontainer.json">> }

\* What the path is when present: a directory, a dangling symbolic link
\* (the walk yields an error for it) or a regular file.
LeafKind(p) ==
    IF p = <<"Dockerfiles">> THEN "dir"
    ELSE IF p = <<"Cargo.lock">> THEN "err"
    ELSE "file"

\* Scan roots given on the command line.
Roots == { <<"proj">>, <<"target">>, <<"Dockerfiles">> }
RootKinds == {"dir", "file", "missing"}

\* Ignore sets: none (the tests), main's, and one holding a file's name.
IgnoreSets == { {}, {".git", "target", "node_modules"}, {"package.json"} }

DEPENDABOT_YAML == <<".github", "dependabot.yaml">>

VARIABLES
    root,          \* the scan root (args.path)
    rootKind,      \* what the root path is on disk
    tree,          \* the leaf paths present under the root
    ignored_dirs,  \* the ignore set handed to find_targets
    order,         \* this process's iteration order of ECOSYSTEMS
    pc,            \* position of the process
    stack,         \* WalkDir's stack of directories being read (entries left)
    calls,         \* history: find_ecosystem's result per walked entry
    classified,    \* history: the items the filter_map closure produced
    grouped,       \* the group map: EcosystemPath -> Vec of file names
    found,         \* the Vec<FoundTarget> find_targets returns
    config,        \* .github/dependabot.yaml as written by main
    previous       \* the result of the previous run, if there was one

vars == << root, rootKind, tree, ignored_dirs, order, pc, stack, calls,
           classified, grouped, found, config, previous >>

\* Every entry of the tree: the leaves and the directories above them.
Nodes(t) == UNION {{SubSeq(l, 1, n) : n \in 1..Len(l)} : l \in t}

\* The kind of the entry at rel (<<>> is the root itself).
Kind(rel) ==
    IF rel = <<>> THEN (IF rootKind = "missing" THEN "err" ELSE rootKind)
    ELSE IF rel \in tree THEN LeafKind(rel)
    ELSE "dir"

\* The entries read_dir yields for the directory at rel.
Children(rel) == {n \in Nodes(tree) : Len(n) = Len(rel) + 1 /\ IsPrefix(rel, n)}

\* DirEntry::file_name: the last component, or the path itself without one.
entry_file_name(path) ==
    IF file_name(path).some THEN file_name(path).name ELSE to_str(path)

\* is_ignored testing the whole path instead of the last component.
is_ignored_full_path(ignored, entry) == to_str(entry) \in ignored

is_ignored(ignored, entry) == entry_file_name(entry) \in ignored

\* The guard of main as Path::exists.
is_dir_exists(kind) == kind # "missing"

\* Path::is_dir in main.
is_dir(kind) == kind = "dir"

\* gha_or_empty with the dev-container prefix tested without the separator.
gha_or_empty_no_separator(e, p) ==
    IF \/ p = ""
       \/ e = "GithubActions"
       \/ /\ e = "Devcontainers"
          /\ starts_with(p, ".devcontainer")
    THEN MAIN_SEPARATOR
    ELSE p

\* The closure gha_or_empty of find_targets.
gha_or_empty(e, p) ==
    IF \/ p = ""
       \/ e = "GithubActions"
       \/ /\ e = "Devcontainers"
          /\ \/ p = ".devcontainer"
             \/ starts_with(p, ".devcontainer" \o MAIN_SEPARATOR_STR)
    THEN MAIN_SEPARATOR
    ELSE p

\* A group map that keeps only the last file name of each key.
GroupInsert_overwrite(g, key, name) ==
    [k \in DOMAIN g \cup {key} |-> IF k = key THEN <<name>> ELSE g[k]]

\* into_group_map_by: push the item's file name on its key's Vec.
GroupInsert(g, key, name) ==
    [k \in DOMAIN g \cup {key} |->
        IF k = key
        THEN Append(IF key \in DOMAIN g THEN g[key] ELSE <<>>, name)
        ELSE g[k]]

Range(s) == {s[i] : i \in 1..Len(s)}

\* The comparator without `.then(a.path.cmp(&b.path))`.
compare_ecosystem_only(a, b) ==
    StrCmp(Display(a.ecosystem), Display(b.ecosystem))

\* The comparator of found.sort_by.
compare(a, b) ==
    LET c == StrCmp(Display(a.ecosystem), Display(b.ecosystem))
    IN  IF c # 0 THEN c ELSE StrCmp(a.path, b.path)

RECURSIVE Insert(_, _)
\* Insert x after the elements that do not compare greater (stable).
Insert(s, x) ==
    IF s = <<>> THEN <<x>>
    ELSE IF compare(x, s[Len(s)]) < 0
    THEN Append(Insert(SubSeq(s, 1, Len(s) - 1), x), s[Len(s)])
    ELSE Append(s, x)

RECURSIVE sort_by(_)
\* slice::sort_by: a stable sort under compare.
sort_by(s) ==
    IF s = <<>> THEN <<>>
    ELSE Insert(sort_by(SubSeq(s, 1, Len(s) - 1)), s[Len(s)])

\* The orders in which a hash map may iterate over the keys S.
RECURSIVE Perms(_)
Perms(S) ==
    IF S = {} THEN {<<>>}
    ELSE UNION {{<<x>> \o p : p \in Perms(S \ {x})} : x \in S}

\* The body of the loop `for (ecopath, groups) in grouped`.
Target(key) ==
    [ecosystem |-> key.ecosystem, path |-> key.path,
     file_names |-> Range(grouped[key])]

RECURSIVE Normalize(_)
\* WalkDir pops the directories it has read to the end.
Normalize(st) ==
    IF st = <<>> THEN <<>>
    ELSE IF st[Len(st)] = {} THEN Normalize(SubSeq(st, 1, Len(st) - 1))
    ELSE st

EmptyMap == [k \in {} |-> <<>>]
NoConfig == [exists |-> FALSE, updates |-> <<>>]
NoPrevious == [returned |-> FALSE, found |-> <<>>]

Init ==
    /\ root \in Roots
    /\ rootKind \in RootKinds
    /\ tree \in {t \in SUBSET Universe : Cardinality(t) <= MaxEntries}
    /\ rootKind # "dir" => tree = {}
    /\ ignored_dirs \in IgnoreSets
    /\ order = ECOSYSTEM_LIST
    /\ pc = "main"
    /\ stack = <<>>
    /\ calls = {}
    /\ classified = {}
    /\ grouped = EmptyMap
    /\ found = <<>>
    /\ config = NoConfig
    /\ previous = NoPrevious

\* main up to the call of find_targets: the is_dir guard; the process's
\* ECOSYSTEMS map gets its iteration order.
Main ==
    /\ pc = "main"
    /\ IF ~is_dir(rootKind)
       THEN /\ pc' = "warned"
            /\ UNCHANGED << order, stack >>
       ELSE /\ pc' = "walk"
            /\ order' \in HashOrders
            /\ stack' = << {<<>>} >>
    /\ UNCHANGED << root, rootKind, tree, ignored_dirs, calls, classified,
                    grouped, found, config, previous >>

\* One step of the iterator chain of find_targets: the walk yields its next
\* entry, filter_entry and entry.ok() drop or keep it, the closure classifies
\* it and the group map takes the item.
WalkNext ==
    /\ pc = "walk"
    /\ stack # <<>>
    /\ \E rel \in stack[Len(stack)] :
       \E ecosystem \in {find_ecosystem(root \o rel, root, order)} :
        LET rest == [stack EXCEPT ![Len(stack)] = @ \ {rel}]
            path == root \o rel
            kind == Kind(rel)
            par == parent(path)
            stripped == strip_prefix(par.path, root)
            dir == IF par.some
                   THEN gha_or_empty(ecosystem, to_str(stripped.sub))
                   ELSE MAIN_SEPARATOR
            name == entry_file_name(path)
        IN  IF kind = "err" \/ is_ignored(ignored_dirs, path)
            THEN /\ stack' = Normalize(rest)
                 /\ UNCHANGED << pc, calls, classified, grouped >>
            ELSE /\ calls' = calls \cup {[rel |-> rel, ecosystem |-> ecosystem]}
                 /\ IF ecosystem = None
                    THEN /\ stack' = Normalize(
                                IF kind = "dir" THEN Append(rest, Children(rel))
                                ELSE rest)
                         /\ UNCHANGED << pc, classified, grouped >>
                    ELSE IF par.some /\ ~stripped.ok
                    THEN /\ pc' = "panicked"
                         /\ UNCHANGED << stack, classified, grouped >>
                    ELSE /\ stack' = Normalize(
                                IF kind = "dir" THEN Append(rest, Children(rel))
                                ELSE rest)
                         /\ classified' = classified \cup
                                {[rel |-> rel, ecosystem |-> ecosystem,
                                  path |-> dir, file_name |-> name]}
                         /\ grouped' = GroupInsert(grouped,
                                [ecosystem |-> ecosystem, path |-> dir], name)
                         /\ UNCHANGED pc
    /\ UNCHANGED << root, rootKind, tree, ignored_dirs, order, found, config,
                    previous >>

\* The end of find_targets: the loop over the group map, in the map's
\* iteration order, then the sort.
Collect ==
    /\ pc = "walk"
    /\ stack = <<>>
    /\ \E iter \in Perms(DOMAIN grouped) :
        found' = sort_by([i \in 1..Len(iter) |-> Target(iter[i])])
    /\ pc' = "returned"
    /\ UNCHANGED << root, rootKind, tree, ignored_dirs, order, stack, calls,
                    classified, grouped, config, previous >>

\* found_to_update
found_to_update(found_target) ==
    [ecosystem |-> Display(found_target.ecosystem),
     directory |-> found_target.path, interval |-> "weekly"]

\* main after find_targets: exit on an empty result, else write the
\* configuration file (the write may fail, which is only logged).
Report ==
    /\ pc = "returned"
    /\ IF found = <<>>
       THEN /\ pc' = "exited"
            /\ UNCHANGED << config, tree >>
       ELSE /\ pc' = "done"
            /\ \E written \in BOOLEAN :
                IF written
                THEN /\ config' = [exists |-> TRUE,
                                   updates |-> [i \in 1..Len(found) |->
                                                   found_to_update(found[i])]]
                     /\ tree' = tree \cup {DEPENDABOT_YAML}
                ELSE UNCHANGED << config, tree >>
    /\ UNCHANGED << root, rootKind, ignored_dirs, order, stack, calls,
                    classified, grouped, found, previous >>

\* The program is started a second time, as a new process, on the same root
\* with the same ignore set; the first run's result is kept for comparison.
Rerun ==
    /\ pc \in {"exited", "done"}
    /\ ~previous.returned
    /\ previous' = [returned |-> TRUE, found |-> found]
    /\ pc' = "main"
    /\ stack' = <<>>
    /\ calls' = {}
    /\ classified' = {}
    /\ grouped' = EmptyMap
    /\ found' = <<>>
    /\ UNCHANGED << root, rootKind, tree, ignored_dirs, order, config >>

\* One run of the program.
Next == Main \/ WalkNext \/ Collect \/ Report

Spec == Init /\ [][Next]_vars

\* Two runs of the program on the same tree.
NextTwice == Main \/ WalkNext \/ Collect \/ Report \/ Rerun

SpecTwice == Init /\ [][NextTwice]_vars

(***************************************************************************)
(* Notions the properties are stated with.                                 *)
(***************************************************************************)
\* find_targets has returned; found is its result.
Returned == pc \in {"returned", "exited", "done"}

Basename(rel) == rel[Len(rel)]
RelParent(rel) == SubSeq(rel, 1, Len(rel) - 1)

\* The Target Key of a record with fields ecosystem and path.
KeyOf(r) == <<r.ecosystem, r.path>>

\* Ecosystems whose pattern set matches the basename.
BasenameMatches(rel) ==
    {e \in PackageEcosystem : is_match(ECOSYSTEMS[e], Basename(rel))}

\* Ecosystems whose own test accepts the entry: the root-relative path for
\* github-actions, the basename for every other one.
Matching(rel) ==
    {e \in PackageEcosystem :
        IF e = "GithubActions"
        THEN is_match(ECOSYSTEMS[e], to_str(rel))
        ELSE is_match(ECOSYSTEMS[e], Basename(rel))}

\* The entry has an ancestor directory below the scan root whose name is ignored.
IgnoredAncestorBelowRoot(rel) ==
    \E i \in 1..(Len(rel) - 1) : rel[i] \in ignored_dirs

\* The entry lies under an ignored directory, the scan root included.
UnderIgnored(rel) ==
    \/ IgnoredAncestorBelowRoot(rel)
    \/ rel # <<>> /\ root[Len(root)] \in ignored_dirs

\* The root marker rule, on the components of the relative parent.
RootMarkerCase(e, relparent) ==
    \/ relparent = <<>>
    \/ e = "GithubActions"
    \/ e = "Devcontainers" /\ relparent[1] = ".devcontainer"

NormalizedDir(e, relparent) ==
    IF RootMarkerCase(e, relparent) THEN "/" ELSE to_str(relparent)

\* (display name, directory) of a strictly before that of b.
StrictlyBefore(a, b) ==
    \/ StrCmp(Display(a.ecosystem), Display(b.ecosystem)) < 0
    \/ /\ Display(a.ecosystem) = Display(b.ecosystem)
       /\ StrCmp(a.path, b.path) < 0

(***************************************************************************)
(* C1                                                                      *)
(***************************************************************************)
\* C1: the returned list holds exactly one target per (ecosystem, normalized
\* directory) key that some walked entry was classified to, its file_names
\* is exactly the set of the basenames of the entries classified to that key,
\* and no target has an empty file name set.
C1_OneTargetPerKey ==
    Returned =>
        /\ \A i, j \in 1..Len(found) :
                KeyOf(found[i]) = KeyOf(found[j]) => i = j
        /\ \A i \in 1..Len(found) :
                /\ found[i].file_names # {}
                /\ found[i].file_names =
                        {c.file_name : c \in {d \in classified :
                                                KeyOf(d) = KeyOf(found[i])}}
        /\ \A c \in classified :
                \E i \in 1..Len(found) : KeyOf(found[i]) = KeyOf(c)

\* package.json and package-lock.json of one directory end in one target.
C1_Witness ==
    /\ Returned
    /\ Len(found) = 1
    /\ found[1].ecosystem = "Npm"
    /\ found[1].file_names = {"package.json", "package-lock.json"}

(***************************************************************************)
(* C2                                                                      *)
(***************************************************************************)
\* C2: the returned list is strictly ascending under the lexicographic order
\* of (ecosystem display name, normalized directory), whatever the iteration
\* order of the group map was.
C2_StrictlyAscending ==
    Returned =>
        \A i \in 1..(Len(found) - 1) : StrictlyBefore(found[i], found[i + 1])

\* Two targets of one ecosystem, ordered by their directories.
C2_Witness ==
    /\ Returned
    /\ Len(found) = 2
    /\ found[1].ecosystem = found[2].ecosystem
    /\ found[1].path # found[2].path

(***************************************************************************)
(* C3                                                                      *)
(***************************************************************************)
\* C3: a second run on the same tree with the same ignore set returns the
\* list the first run returned.
C3_SameOutputTwice ==
    (Returned /\ previous.returned) => found = previous.found

C7_InvalidRootIsEmpty ==
    rootKind # "dir" =>
        /\ pc # "panicked"
        /\ found = <<>>
        /\ classified = {}
        /\ ~config.exists
        /\ DEPENDABOT_YAML \notin tree

\* main has returned at its guard for a root that is a file.
C7_Witness ==
    /\ rootKind = "file"
    /\ root = <<"Dockerfiles">>
    /\ pc = "warned"

(***************************************************************************)
(* C8                                                                      *)
(***************************************************************************)
\* C8: every file under the scan root that some ecosystem accepts and that
\* has no ancestor directory below the root with an ignored name is counted
\* in exactly one returned target, whatever the root's own name and whether
\* or not the file's own name is in the ignore set.
C8_EveryMatchingFileCounted ==
    Returned =>
        \A rel \in Nodes(tree) :
            ( /\ Kind(rel) = "file"
              /\ Matching(rel) # {}
              /\ ~IgnoredAncestorBelowRoot(rel) ) =>
                Cardinality({i \in 1..Len(found) :
                    /\ found[i].ecosystem \in Matching(rel)
                    /\ found[i].path =
                            NormalizedDir(found[i].ecosystem, RelParent(rel))
                    /\ Basename(rel) \in found[i].file_names}) = 1

(***************************************************************************)
(* C9                                                                      *)
(***************************************************************************)
\* C9: only files are classified: every classified entry is a file, and every
\* file name of every returned target is the basename of a file of the tree.
C9_OnlyFilesClassified ==
    /\ \A c \in classified : Kind(c.rel) = "file"
    /\ Returned =>
        \A i \in 1..Len(found) : \A n \in found[i].file_names :
            \E rel \in Nodes(tree) : Kind(rel) = "file" /\ Basename(rel) = n

(***************************************************************************)
(* C10                                                                     *)
(***************************************************************************)
\* C10: find_targets never aborts: the `Couldn't strip prefix` expectation
\* holds for every classified entry, the depth-0 root entry included.
C10_NeverAborts == pc # "panicked"

====
